---- MODULE Spec2Model ----
(***************************************************************************)
(* The interchain query relayer: the dispatch loop of Relayer.Run, the TX  *)
(* path with its last-processed-height bookkeeping, the proof submitter    *)
(* and the TxSender pipeline (account query, gas simulation, sign,         *)
(* broadcast).                                                             *)
(***************************************************************************)
EXTENDS Integers, Sequences, FiniteSets, TLC

\* Bounds of the model.
MaxTasks == 2       \* tasks the subscriber puts on the queue in one run
MaxHeight == 2      \* block heights of the target chain are 1..MaxHeight

QueryIds == {1, 2}
Heights == 0..MaxHeight

\* storage.GetLastQueryHeight answers leveldb.ErrNotFound for a key it does
\* not hold; the store is a map from query id to height, Absent for no key.
Absent == -1

TxHeight == "tx.height"
InterchainQueryTypeKV == "kv"
InterchainQueryTypeTX == "tx"

\* Zero values of the loop-local variables of Run (var queryType, queryID).
LoopQueryType == ""
LoopQueryID == 0

(***************************************************************************)
(* JSON values.  A value of Go type interface{} or a JSON token is a       *)
(* tagged record, so that strings and numbers are never compared.          *)
(***************************************************************************)
Str(s) == [t |-> "str", s |-> s, n |-> 0]
Num(n) == [t |-> "num", s |-> "", n |-> n]
NilValue == [t |-> "nil", s |-> "", n |-> 0]
JsonAbsent == [t |-> "absent", s |-> "", n |-> 0]

JsonObj(f, o, v) == [field |-> f, op |-> o, value |-> v]
JsonArray(items) == [kind |-> "array", items |-> items]
JsonNull == [kind |-> "null", items |-> <<>>]

\* The transactions filters the registered queries of the model carry.
FilterAction == JsonObj(Str("message.action"), Str("eq"), Str("transfer"))
FilterRecipient == JsonObj(Str("transfer.recipient"), JsonAbsent, Str("addr"))
FilterBadField == JsonObj(Num(1), Str("eq"), Str("transfer"))
FilterDocs ==
    { JsonArray(<<FilterRecipient, FilterAction>>),
      JsonArray(<<FilterAction, FilterBadField>>),
      JsonNull }

\* json.Unmarshal into neutrontypes.TransactionsFilter: an array of objects
\* (or null, which leaves the slice nil); a string field takes a JSON string
\* and keeps its zero value when the key is missing, a number there is a
\* type error; Value is an interface{} and takes whatever is there.
UnmarshalOk(doc) ==
    /\ \A i \in DOMAIN doc.items :
          /\ doc.items[i].field.t \in {"str", "absent"}
          /\ doc.items[i].op.t \in {"str", "absent"}

UnmarshalItem(o) ==
    [Field |-> IF o.field.t = "str" THEN o.field.s ELSE "",
     Op    |-> IF o.op.t = "str" THEN o.op.s ELSE "",
     Value |-> IF o.value.t = "absent" THEN NilValue ELSE o.value]

Unmarshal(doc) == [i \in DOMAIN doc.items |-> UnmarshalItem(doc.items[i])]

\* The queries the subscriber can deliver.
NoFilter == JsonNull
KVTasks == { [Id |-> 1, QueryType |-> InterchainQueryTypeKV, Keys |-> <<"bank/balance", "bank/supply">>,
              TransactionsFilter |-> NoFilter] }
TXTasks ==
    { [Id |-> i, QueryType |-> InterchainQueryTypeTX, Keys |-> <<>>,
       TransactionsFilter |-> JsonArray(<<FilterAction>>)] : i \in QueryIds }
    \cup { [Id |-> 1, QueryType |-> InterchainQueryTypeTX, Keys |-> <<>>,
            TransactionsFilter |-> d] : d \in FilterDocs }
OtherTasks == { [Id |-> 1, QueryType |-> "", Keys |-> <<>>, TransactionsFilter |-> NoFilter] }
Tasks == KVTasks \cup TXTasks \cup OtherTasks
\* One query of each type, for the runs that follow the loop to its end.
LoopTasks ==
    KVTasks \cup OtherTasks
    \cup { [Id |-> 1, QueryType |-> InterchainQueryTypeTX, Keys |-> <<>>,
            TransactionsFilter |-> JsonArray(<<FilterAction>>)] }
NoQuery == [Id |-> 0, QueryType |-> "none", Keys |-> <<>>, TransactionsFilter |-> NoFilter]

RECURSIVE SortedSeq(_)
SortedSeq(S) ==
    IF S = {} THEN <<>>
    ELSE LET m == CHOOSE x \in S : \A y \in S : x <= y
         IN <<m>> \o SortedSeq(S \ {m})

SeqMax(s) == CHOOSE x \in {s[i] : i \in DOMAIN s} : \A i \in DOMAIN s : s[i] <= x

VARIABLES
    \* environment
    enqueued,            \* number of tasks the subscriber has delivered
    ctxCancelled,        \* ctx.Done() of the context given to Run is closed
    \* Relayer.Run
    tasks,               \* the queue of registered queries
    pc,                  \* position of the relay loop
    query,               \* the dequeued task
    err,                 \* err of the loop iteration ("nil" for no error)
    taskCtx,             \* context the running task was given
    runErr,              \* what Run returned ("none" while it runs)
    closeCalls,          \* calls of storage.Close
    closeFailed,         \* storage.Close returned an error
    metrics,             \* AddSuccessRequest / AddFailedRequest observations
    errorLog,            \* "could not process message" log lines
    \* processMessageTX
    queryParams,         \* filter handed to SearchTransactions
    txs,                 \* heights of the transactions the search delivered
    searchErr,           \* txQuerier.Err() /= nil
    procErr,             \* error of txProcessor.ProcessAndSubmit
    lastProcessedHeight,
    heightBefore,        \* stored height of the task's query when it was dequeued
    \* Height Store
    storage,
    lastWrite,           \* the last successful SetLastQueryHeight of the running task
    initWrites,          \* per query id, the writes of 0 by getLastQueryHeight
    lastGet,             \* the last call of getLastQueryHeight
    \* Proof Submitter
    msgs,                \* messages handed to TxSender.Send
    sendCalls,           \* calls of TxSender.Send by the running task
    \* TxSender
    txBroadcastType,
    sendPc,
    sendSteps,           \* steps of the running Send, each with its outcome
    sendErr,
    bres,                \* response of the broadcast call
    gasNeeded,
    simRes               \* the Simulate query of calculateGas: its data, its response

envVars == <<enqueued, ctxCancelled>>
runVars == <<tasks, pc, query, err, taskCtx, runErr, closeCalls, closeFailed, metrics,
             errorLog>>
txVars == <<queryParams, txs, searchErr, procErr, lastProcessedHeight, heightBefore>>
storeVars == <<storage, lastWrite, initWrites, lastGet>>
sendVars == <<sendPc, sendSteps, sendErr, bres, gasNeeded, simRes>>
vars == <<envVars, runVars, txVars, storeVars, msgs, sendCalls, txBroadcastType, sendVars>>

BroadcastTxSync == "Sync"
BroadcastTxAsync == "Async"
BroadcastTxCommit == "Commit"
TxBroadcastTypes == {BroadcastTxSync, BroadcastTxAsync, BroadcastTxCommit, "Unknown"}

NoGet == [id |-> 0, before |-> Absent, height |-> 0, failed |-> FALSE, wrote |-> 0]
MetricLabels == {LoopQueryType, InterchainQueryTypeKV, InterchainQueryTypeTX}
NoWrite == [id |-> 0, height |-> 0, init |-> FALSE]
NoBres == [failed |-> FALSE, code |-> 0, deliverCode |-> 0]
NoSimRes == [queried |-> FALSE, data |-> "nil", failed |-> FALSE, code |-> 0,
             decodes |-> FALSE, hasGasInfo |-> FALSE, gasUsed |-> 0]

Init ==
    /\ enqueued = 0
    /\ ctxCancelled = FALSE
    /\ tasks = <<>>
    /\ pc = "select"
    /\ query = NoQuery
    /\ err = "nil"
    /\ taskCtx = "none"
    /\ runErr = "none"
    /\ closeCalls = 0
    /\ closeFailed = FALSE
    /\ metrics = [l \in MetricLabels |-> [success |-> 0, failed |-> 0]]
    /\ errorLog = <<>>
    /\ queryParams = <<>>
    /\ txs = <<>>
    /\ searchErr = FALSE
    /\ procErr = "nil"
    /\ lastProcessedHeight = 0
    /\ heightBefore = Absent
    /\ storage = [i \in QueryIds |-> Absent]
    /\ lastWrite = NoWrite
    /\ initWrites = [i \in QueryIds |-> 0]
    /\ lastGet = NoGet
    /\ msgs = <<>>
    /\ sendCalls = 0
    /\ txBroadcastType \in TxBroadcastTypes
    /\ sendPc = "idle"
    /\ sendSteps = <<>>
    /\ sendErr = "nil"
    /\ bres = NoBres
    /\ gasNeeded = 0
    /\ simRes = NoSimRes


(***************************************************************************)
(* Environment: the subscriber fills the queue, the caller cancels ctx.    *)
(***************************************************************************)
Enqueue(queries) ==
    /\ enqueued < MaxTasks
    /\ ~ctxCancelled
    /\ \E q \in queries : tasks' = Append(tasks, q)
    /\ enqueued' = enqueued + 1
    /\ UNCHANGED <<ctxCancelled, pc, query, err, taskCtx, runErr, closeCalls, closeFailed, metrics,
                   errorLog, txVars, storeVars, msgs, sendCalls, txBroadcastType, sendVars>>

Cancel ==
    /\ ~ctxCancelled
    /\ ctxCancelled' = TRUE
    /\ UNCHANGED <<enqueued, runVars, txVars, storeVars, msgs, sendCalls, txBroadcastType, sendVars>>

\* A call that takes a context is aborted with the context's error once the
\* context it was given is cancelled; context.Background() is never cancelled.
Aborted == taskCtx = "ctx" /\ ctxCancelled

(***************************************************************************)
(* Relayer.Run                                                             *)
(***************************************************************************)
\* Relayer.stop: close the storage, report a failure to close.
\* Faulty variant: a failure to close the storage is only logged.
StopResult_Nil(failed) == "nil"

StopResult(failed) ==
    IF failed THEN "error occurred while stopping relayer" ELSE "nil"

stop ==
    \E closeFails \in BOOLEAN :
        /\ closeCalls' = closeCalls + 1
        /\ closeFailed' = closeFails
        /\ runErr' = StopResult(closeFails)
        /\ pc' = "returned"

\* The context the switch of Run hands to the processing of a query.
ContextOf(queryType) ==
    IF queryType = InterchainQueryTypeKV THEN "ctx"
    ELSE IF queryType = InterchainQueryTypeTX THEN "background"
    ELSE "none"

\* Faulty variant: a KV query is handled like a TX query.
RouteOf_KVThroughTX(queryType) ==
    IF queryType \in {InterchainQueryTypeKV, InterchainQueryTypeTX} THEN "processMessageTX"
    ELSE "record"

\* Faulty variant: the switch has a default case that handles the query as KV.
RouteOf_DefaultKV(queryType) ==
    IF queryType = InterchainQueryTypeTX THEN "processMessageTX" ELSE "processMessageKV"

\* Where the switch of Run sends a dequeued query.
RouteOf(queryType) ==
    IF queryType = InterchainQueryTypeKV THEN "processMessageKV"
    ELSE IF queryType = InterchainQueryTypeTX THEN "processMessageTX"
    ELSE "record"

\* Faulty variant: the queue hands out its newest element.
Dequeue_Newest(queue) ==
    [item |-> queue[Len(queue)], rest |-> SubSeq(queue, 1, Len(queue) - 1)]

\* tasks.Dequeue(): the front element, and the queue without it.
Dequeue(queue) == [item |-> Head(queue), rest |-> Tail(queue)]

\* One pass of the select of Run: ctx.Done() when it is ready, else the
\* default branch, which goes round when the queue is empty and otherwise
\* dequeues one query and routes it by its type.
Run ==
    /\ pc = "select"
    /\ IF ctxCancelled
       THEN /\ stop
            /\ UNCHANGED <<tasks, query, err, taskCtx, heightBefore>>
       ELSE IF tasks = <<>>
       THEN UNCHANGED <<tasks, pc, query, err, taskCtx, runErr, closeCalls, closeFailed,
                        heightBefore>>
       ELSE /\ query' = Dequeue(tasks).item
            /\ tasks' = Dequeue(tasks).rest
            /\ err' = "nil"
            /\ taskCtx' = ContextOf(query'.QueryType)
            /\ pc' = RouteOf(query'.QueryType)
            /\ heightBefore' = storage[query'.Id]
            /\ UNCHANGED <<runErr, closeCalls, closeFailed>>
    /\ UNCHANGED <<envVars, metrics, errorLog, queryParams, txs, searchErr, procErr,
                   lastProcessedHeight, storeVars, msgs, sendCalls, txBroadcastType, sendVars>>

\* Faulty variant: Run returns on the error of a task.
AfterRecord_ReturnOnError(e) == IF e # "nil" THEN "returned" ELSE "select"

\* Where the loop goes after a task that ended with `e`: round again.
AfterRecord(e) == "select"

\* The end of the loop body: log and count the outcome of the task.  The
\* locals of the iteration go out of scope.
RunRecord ==
    /\ pc = "record"
    /\ IF err # "nil"
       THEN /\ errorLog' = Append(errorLog, [query_id |-> LoopQueryID])
            /\ metrics' = [metrics EXCEPT ![LoopQueryType].failed = @ + 1]
       ELSE /\ metrics' = [metrics EXCEPT ![LoopQueryType].success = @ + 1]
            /\ UNCHANGED errorLog
    /\ pc' = AfterRecord(err)
    /\ query' = NoQuery
    /\ err' = "nil"
    /\ taskCtx' = "none"
    /\ queryParams' = <<>>
    /\ txs' = <<>>
    /\ searchErr' = FALSE
    /\ procErr' = "nil"
    /\ lastProcessedHeight' = 0
    /\ heightBefore' = Absent
    /\ lastGet' = NoGet
    /\ lastWrite' = NoWrite
    /\ msgs' = <<>>
    /\ sendCalls' = 0
    /\ UNCHANGED <<envVars, tasks, runErr, closeCalls, closeFailed, storage, initWrites,
                   txBroadcastType, sendVars>>

(***************************************************************************)
(* Proof Submitter                                                         *)
(***************************************************************************)
NilSlice == [isNil |-> TRUE, items |-> <<>>]
Slice(items) == [isNil |-> FALSE, items |-> items]

\* Faulty variant: one message per storage value.
buildProofMsg_PerValue(height, queryId, proof, addrOk, valid) ==
    IF ~addrOk \/ ~valid THEN [failed |-> TRUE, msgs |-> <<>>]
    ELSE [failed |-> FALSE,
          msgs |-> [i \in DOMAIN proof |->
                       [QueryId |-> queryId,
                        Result |-> [Height |-> height, KvResults |-> Slice(<<proof[i]>>),
                                    Txs |-> NilSlice]]]]

\* buildProofMsg: one MsgSubmitQueryResult with a KV-shaped result, or an
\* error when the sender address or ValidateBasic fails.
buildProofMsg(height, queryId, proof, addrOk, valid) ==
    IF ~addrOk THEN [failed |-> TRUE, msgs |-> <<>>]
    ELSE IF ~valid THEN [failed |-> TRUE, msgs |-> <<>>]
    ELSE [failed |-> FALSE,
          msgs |-> << [QueryId |-> queryId,
                       Result |-> [Height |-> height, KvResults |-> Slice(proof),
                                   Txs |-> NilSlice]] >>]

\* Faulty variant: the result carries the proofs in both of its fields.
buildTxProofMsg_BothShapes(queryId, proof, addrOk, valid) ==
    IF ~addrOk \/ ~valid THEN [failed |-> TRUE, msgs |-> <<>>]
    ELSE [failed |-> FALSE,
          msgs |-> << [QueryId |-> queryId,
                       Result |-> [Height |-> 0, KvResults |-> Slice(proof),
                                   Txs |-> Slice(proof)]] >>]

\* buildTxProofMsg: the same with a TX-shaped result.
buildTxProofMsg(queryId, proof, addrOk, valid) ==
    IF ~addrOk THEN [failed |-> TRUE, msgs |-> <<>>]
    ELSE IF ~valid THEN [failed |-> TRUE, msgs |-> <<>>]
    ELSE [failed |-> FALSE,
          msgs |-> << [QueryId |-> queryId,
                       Result |-> [Height |-> 0, KvResults |-> NilSlice,
                                   Txs |-> Slice(proof)]] >>]

\* Send has returned to its caller: its locals are gone.
SendIdle ==
    /\ sendPc' = "idle"
    /\ sendSteps' = <<>>
    /\ sendErr' = "nil"
    /\ bres' = NoBres
    /\ gasNeeded' = 0
    /\ simRes' = NoSimRes

\* Entry of TxSender.Send.
SendCall ==
    /\ sendPc' = "queryAccount"
    /\ sendSteps' = <<>>
    /\ sendErr' = "nil"
    /\ bres' = NoBres
    /\ gasNeeded' = 0
    /\ simRes' = NoSimRes


(***************************************************************************)
(* KV path                                                                 *)
(***************************************************************************)
\* processMessageKV hands the message to kvProcessor.ProcessAndSubmit, which
\* fetches the proofs of the query's keys at the latest height.
processMessageKV ==
    /\ pc = "processMessageKV"
    /\ \E fetched \in (IF Aborted THEN {FALSE} ELSE BOOLEAN) :
          IF fetched
          THEN pc' = "SubmitProof" /\ UNCHANGED err
          ELSE pc' = "record" /\ err' = "failed to fetch kv proofs"
    /\ UNCHANGED <<envVars, tasks, query, taskCtx, runErr, closeCalls, closeFailed, metrics, errorLog,
                   txVars, storeVars, msgs, sendCalls, txBroadcastType, sendVars>>

\* SubmitterImpl.SubmitProof: build the one message, then Send it.
SubmitProof ==
    /\ pc = "SubmitProof"
    /\ \E addrOk \in BOOLEAN, valid \in BOOLEAN :
          LET proof == [i \in DOMAIN query.Keys |-> i]
              m == buildProofMsg(MaxHeight, query.Id, proof, addrOk, valid)
          IN IF m.failed
             THEN /\ err' = "could not build proof msg"
                  /\ pc' = "record"
                  /\ UNCHANGED <<msgs, sendCalls, sendVars>>
             ELSE /\ msgs' = m.msgs
                  /\ sendCalls' = sendCalls + 1
                  /\ SendCall
                  /\ pc' = "kvSend"
                  /\ UNCHANGED err
    /\ UNCHANGED <<envVars, tasks, query, taskCtx, runErr, closeCalls, closeFailed, metrics, errorLog,
                   txVars, storeVars, txBroadcastType>>

\* Send has returned to SubmitProof, and with it ProcessAndSubmit to Run.
processMessageKVReturn ==
    /\ pc = "kvSend"
    /\ sendPc = "done"
    /\ err' = sendErr
    /\ SendIdle
    /\ pc' = "record"
    /\ UNCHANGED <<envVars, tasks, query, taskCtx, runErr, closeCalls, closeFailed, metrics, errorLog,
                   txVars, storeVars, msgs, sendCalls, txBroadcastType>>

(***************************************************************************)
(* TX path                                                                 *)
(***************************************************************************)
\* Faulty variant: the height is set to 0 whenever the read did not fail.
getLastQueryHeight_AlwaysInit(store, queryID, getFails, setFails) ==
    IF getFails \/ setFails
    THEN [height |-> 0, failed |-> TRUE, store |-> store, wrote |-> 0]
    ELSE [height |-> 0, failed |-> FALSE, store |-> [store EXCEPT ![queryID] = 0],
          wrote |-> 1]

\* Relayer.getLastQueryHeight on the store `store`; getFails and setFails
\* are the failures of the storage calls.
getLastQueryHeight(store, queryID, getFails, setFails) ==
    IF ~getFails /\ store[queryID] = Absent
    THEN IF setFails
         THEN [height |-> 0, failed |-> TRUE, store |-> store, wrote |-> 0]
         ELSE [height |-> 0, failed |-> FALSE,
               store |-> [store EXCEPT ![queryID] = 0], wrote |-> 1]
    ELSE IF getFails
    THEN [height |-> 0, failed |-> TRUE, store |-> store, wrote |-> 0]
    ELSE [height |-> store[queryID], failed |-> FALSE, store |-> store, wrote |-> 0]

\* Faulty variant: the search always starts at height 0.
HeightFilterItem_FromZero(queryLastHeight) ==
    [Field |-> TxHeight, Op |-> "gt", Value |-> Num(0)]

\* The triple buildTxQuery appends: tx.height > n.
HeightFilterItem(queryLastHeight) ==
    [Field |-> TxHeight, Op |-> "gt", Value |-> Num(queryLastHeight)]

\* Faulty variant: the height triple is put in front.
AppendFilter_Prepend(params, item) == <<item>> \o params

\* params = append(params, item)
AppendFilter(params, item) == Append(params, item)

\* Relayer.buildTxQuery
buildTxQuery(store, m, getFails, setFails) ==
    LET g == getLastQueryHeight(store, m.Id, getFails, setFails)
    IN IF g.failed
       THEN [failed |-> TRUE, params |-> <<>>, get |-> g]
       ELSE IF ~UnmarshalOk(m.TransactionsFilter)
       THEN [failed |-> TRUE, params |-> <<>>, get |-> g]
       ELSE [failed |-> FALSE,
             params |-> AppendFilter(Unmarshal(m.TransactionsFilter),
                                     HeightFilterItem(g.height)),
             get |-> g]

\* processMessageTX up to the search: build the query parameters.
processMessageTX ==
    /\ pc = "processMessageTX"
    /\ \E getFails \in BOOLEAN, setFails \in BOOLEAN :
          LET b == buildTxQuery(storage, query, getFails, setFails)
          IN /\ storage' = b.get.store
             /\ lastWrite' = IF b.get.wrote = 1
                             THEN [id |-> query.Id, height |-> 0, init |-> TRUE]
                             ELSE lastWrite
             /\ initWrites' = [initWrites EXCEPT ![query.Id] = @ + b.get.wrote]
             /\ lastGet' = [id |-> query.Id, before |-> storage[query.Id],
                            height |-> b.get.height, failed |-> b.get.failed,
                            wrote |-> b.get.wrote]
             /\ IF b.failed
                THEN /\ err' = "failed to build tx query params"
                     /\ pc' = "record"
                     /\ UNCHANGED queryParams
                ELSE /\ queryParams' = b.params
                     /\ pc' = "SearchTransactions"
                     /\ UNCHANGED err
    /\ UNCHANGED <<envVars, tasks, query, taskCtx, runErr, closeCalls, closeFailed, metrics, errorLog,
                   txs, searchErr, procErr, lastProcessedHeight, heightBefore, msgs, sendCalls,
                   txBroadcastType, sendVars>>

\* Heights of the transactions of the target chain that satisfy the height
\* predicates of a filter (the filter's triples are ANDed).
SearchMatches(filter) ==
    { h \in 1..MaxHeight :
        \A i \in DOMAIN filter :
            (filter[i].Field = TxHeight /\ filter[i].Op = "gt" /\ filter[i].Value.t = "num")
                => h > filter[i].Value.n }

\* txQuerier.SearchTransactions: the matching transactions in ascending
\* height (any subset: the other predicates of the filter), and whether the
\* search ended with an error.
SearchTransactions ==
    /\ pc = "SearchTransactions"
    /\ \E S \in SUBSET SearchMatches(queryParams),
          failed \in (IF Aborted THEN {TRUE} ELSE BOOLEAN) :
          /\ txs' = SortedSeq(S)
          /\ searchErr' = failed
    /\ pc' = "ProcessAndSubmit"
    /\ UNCHANGED <<envVars, tasks, query, err, taskCtx, runErr, closeCalls, closeFailed, metrics,
                   errorLog, queryParams, procErr, lastProcessedHeight, heightBefore,
                   storeVars, msgs, sendCalls, txBroadcastType, sendVars>>

\* What txProcessor.ProcessAndSubmit returns as the last processed height:
\* the maximum height of the batch, the stored height for an empty batch.
ProcessedHeight(batch, stored) == IF batch = <<>> THEN stored ELSE SeqMax(batch)

\* txProcessor.ProcessAndSubmit: nothing to submit for an empty batch, else
\* fetch the proofs of every transaction.
ProcessAndSubmit ==
    /\ pc = "ProcessAndSubmit"
    /\ IF txs = <<>>
       THEN /\ procErr' = "nil"
            /\ lastProcessedHeight' = ProcessedHeight(txs, storage[query.Id])
            /\ pc' = "afterProcessAndSubmit"
       ELSE \E fetched \in (IF Aborted THEN {FALSE} ELSE BOOLEAN) :
               IF fetched
               THEN pc' = "SubmitTxProof" /\ UNCHANGED <<procErr, lastProcessedHeight>>
               ELSE /\ procErr' = "failed to fetch tx proofs"
                    /\ pc' = "afterProcessAndSubmit"
                    /\ UNCHANGED lastProcessedHeight
    /\ UNCHANGED <<envVars, tasks, query, err, taskCtx, runErr, closeCalls, closeFailed, metrics,
                   errorLog, queryParams, txs, searchErr, heightBefore, storeVars, msgs, sendCalls,
                   txBroadcastType, sendVars>>

\* SubmitterImpl.SubmitTxProof: build the one message, then Send it.
SubmitTxProof ==
    /\ pc = "SubmitTxProof"
    /\ \E addrOk \in BOOLEAN, valid \in BOOLEAN :
          LET m == buildTxProofMsg(query.Id, txs, addrOk, valid)
          IN IF m.failed
             THEN /\ procErr' = "could not build tx proof msg"
                  /\ pc' = "afterProcessAndSubmit"
                  /\ UNCHANGED <<msgs, sendCalls, sendVars>>
             ELSE /\ msgs' = m.msgs
                  /\ sendCalls' = sendCalls + 1
                  /\ SendCall
                  /\ pc' = "txSend"
                  /\ UNCHANGED procErr
    /\ UNCHANGED <<envVars, tasks, query, err, taskCtx, runErr, closeCalls, closeFailed, metrics,
                   errorLog, queryParams, txs, searchErr, lastProcessedHeight, heightBefore,
                   storeVars, txBroadcastType>>

\* Send has returned to SubmitTxProof, and with it ProcessAndSubmit.
ProcessAndSubmitReturn ==
    /\ pc = "txSend"
    /\ sendPc = "done"
    /\ procErr' = sendErr
    /\ lastProcessedHeight' =
          IF sendErr = "nil" THEN ProcessedHeight(txs, storage[query.Id]) ELSE 0
    /\ SendIdle
    /\ pc' = "afterProcessAndSubmit"
    /\ UNCHANGED <<envVars, tasks, query, err, taskCtx, runErr, closeCalls, closeFailed, metrics,
                   errorLog, queryParams, txs, searchErr, heightBefore, storeVars, msgs, sendCalls,
                   txBroadcastType>>

\* Faulty variant: the error of ProcessAndSubmit is not looked at.
MayPersist_IgnoreProcessErr(processErr, queryErr) == ~queryErr

\* Faulty variant: the error of the search is not looked at.
MayPersist_IgnoreQueryErr(processErr, queryErr) == processErr = "nil"

\* processMessageTX stores the height only past both error checks.
MayPersist(processErr, queryErr) == processErr = "nil" /\ ~queryErr

\* processMessageTX after ProcessAndSubmit: the error checks and the write
\* of the last processed height.
SetLastQueryHeight ==
    /\ pc = "afterProcessAndSubmit"
    /\ IF ~MayPersist(procErr, searchErr)
       THEN /\ err' = IF procErr # "nil" THEN "failed to process txs"
                      ELSE "failed to query txs"
            /\ UNCHANGED <<storage, lastWrite>>
       ELSE \E setFails \in BOOLEAN :
               IF setFails
               THEN /\ err' = "failed to save last height of query"
                    /\ UNCHANGED <<storage, lastWrite>>
               ELSE /\ storage' = [storage EXCEPT ![query.Id] = lastProcessedHeight]
                    /\ lastWrite' = [id |-> query.Id, height |-> lastProcessedHeight,
                                     init |-> FALSE]
                    /\ err' = "nil"
    /\ pc' = "record"
    /\ UNCHANGED <<envVars, tasks, query, taskCtx, runErr, closeCalls, closeFailed, metrics, errorLog,
                   txVars, initWrites, lastGet, msgs, sendCalls, txBroadcastType, sendVars>>


(***************************************************************************)
(* TxSender.Send                                                           *)
(***************************************************************************)
Codes == {0, 5}
GasUsedValues == {1, 3}
\* cfg.GasAdjustment, the ratio GasAdjustmentNum / GasAdjustmentDen.
GasAdjustmentNum == 3
GasAdjustmentDen == 2

Step(name, ok) == [step |-> name, ok |-> ok]

\* Send returns `e` after the step `name`.
SendReturns(name, e) ==
    /\ sendSteps' = Append(sendSteps, Step(name, e = "nil"))
    /\ sendErr' = e
    /\ sendPc' = "done"

\* Faulty variant: the error of a step is kept but Send does not return on it.
SendStep_NoReturn(name, e, next) ==
    /\ sendSteps' = Append(sendSteps, Step(name, e = "nil"))
    /\ sendPc' = next
    /\ sendErr' = IF e = "nil" THEN sendErr ELSE e

\* After the step `name` ended with `e`: if err != nil { return err }, else
\* Send goes on to `next`.
SendStep(name, e, next) ==
    /\ sendSteps' = Append(sendSteps, Step(name, e = "nil"))
    /\ IF e = "nil"
       THEN sendPc' = next /\ UNCHANGED sendErr
       ELSE sendPc' = "done" /\ sendErr' = e

\* TxSender.queryAccount by its outcome.
queryAccount(outcome) ==
    CASE outcome = "ok" -> "nil"
      [] outcome = "marshal" -> "marshal account request"
      [] outcome = "rpc" -> "abci query failed"
      [] outcome = "code" -> "error fetching account"
      [] OTHER -> "unmarshal account response"

Send_queryAccount ==
    /\ sendPc = "queryAccount"
    /\ \E outcome \in (IF Aborted THEN {"rpc"}
                       ELSE {"ok", "marshal", "rpc", "code", "unmarshal"}) :
          SendStep("queryAccount", queryAccount(outcome), "calculateGas")
    /\ UNCHANGED <<envVars, runVars, txVars, storeVars, msgs, sendCalls, txBroadcastType, bres,
                   gasNeeded, simRes>>

\* TxSender.buildSimulationTx by the outcome of its steps: the request bytes
\* or an error; a failure to encode returns neither.
buildSimulationTx(outcome) ==
    CASE outcome = "ok" -> [failed |-> FALSE, data |-> "simulate request"]
      [] outcome = "build" -> [failed |-> TRUE, data |-> "nil"]
      [] outcome = "signatures" -> [failed |-> TRUE, data |-> "nil"]
      [] OTHER -> [failed |-> FALSE, data |-> "nil"]

\* The responses of the Simulate query: the call may fail, the value may
\* not decode, the gas info may be missing.
SimulateResponses ==
    LET failure == [failed |-> TRUE, code |-> 0, decodes |-> FALSE, hasGasInfo |-> FALSE,
                    gasUsed |-> 0]
    IN IF Aborted
       THEN {failure}
       ELSE {failure}
            \cup [failed : {FALSE}, code : Codes, decodes : {FALSE}, hasGasInfo : {FALSE},
                  gasUsed : {0}]
            \cup [failed : {FALSE}, code : Codes, decodes : {TRUE}, hasGasInfo : {FALSE},
                  gasUsed : {0}]
            \cup [failed : {FALSE}, code : Codes, decodes : {TRUE}, hasGasInfo : {TRUE},
                  gasUsed : GasUsedValues]

\* uint64(txf.GasAdjustment() * float64(gasUsed))
AdjustGas(gasUsed) == (GasAdjustmentNum * gasUsed) \div GasAdjustmentDen

\* TxSender.calculateGas
calculateGas(build, res) ==
    LET simulation == buildSimulationTx(build)
    IN IF simulation.failed
       THEN [failed |-> TRUE, gas |-> 0, queried |-> FALSE, data |-> "nil"]
       ELSE IF res.failed \/ ~res.decodes \/ ~res.hasGasInfo
       THEN [failed |-> TRUE, gas |-> 0, queried |-> TRUE, data |-> simulation.data]
       ELSE [failed |-> FALSE, gas |-> AdjustGas(res.gasUsed), queried |-> TRUE,
             data |-> simulation.data]

Send_calculateGas ==
    /\ sendPc = "calculateGas"
    /\ \E build \in {"ok", "build", "signatures", "encode"}, res \in SimulateResponses :
          LET g == calculateGas(build, res)
          IN /\ SendStep("calculateGas",
                         IF g.failed THEN "gas calculation failed" ELSE "nil", "buildTxBz")
             /\ gasNeeded' = g.gas
             /\ simRes' = IF g.queried
                           THEN [queried |-> TRUE, data |-> g.data, failed |-> res.failed,
                                 code |-> res.code, decodes |-> res.decodes,
                                 hasGasInfo |-> res.hasGasInfo, gasUsed |-> res.gasUsed]
                           ELSE NoSimRes
    /\ UNCHANGED <<envVars, runVars, txVars, storeVars, msgs, sendCalls, txBroadcastType, bres>>

\* TxSender.buildTxBz by its outcome; Send wraps its error.
buildTxBz(outcome) ==
    IF outcome = "ok" THEN "nil" ELSE "could not build tx bz"

\* The Simulate response was a local of calculateGas; Send keeps gasNeeded.
Send_buildTxBz ==
    /\ sendPc = "buildTxBz"
    /\ \E outcome \in {"ok", "build", "sign", "encode"} :
          SendStep("buildTxBz", buildTxBz(outcome), "broadcast")
    /\ simRes' = NoSimRes
    /\ UNCHANGED <<envVars, runVars, txVars, storeVars, msgs, sendCalls, txBroadcastType, bres,
                   gasNeeded>>

\* Responses of the broadcast calls; deliverCode is DeliverTx.Code of a
\* commit broadcast.
BroadcastResponses(commit) ==
    IF Aborted
    THEN { [failed |-> TRUE, code |-> 0, deliverCode |-> 0] }
    ELSE [failed : BOOLEAN, code : Codes, deliverCode : IF commit THEN Codes ELSE {0}]

\* case config.BroadcastTxSync
SyncResult(res) ==
    IF res.failed THEN "error broadcasting sync transaction"
    ELSE IF res.code = 0 THEN "nil"
    ELSE "error broadcasting sync transaction with log"

\* case config.BroadcastTxAsync
AsyncResult(res) ==
    IF res.failed THEN "error broadcasting async transaction"
    ELSE IF res.code = 0 THEN "nil"
    ELSE "error broadcasting async transaction with log"

\* Faulty variant: only CheckTx is looked at.
CommitResult_CheckTxOnly(res) ==
    IF res.failed THEN "error broadcasting commit transaction"
    ELSE IF res.code = 0 THEN "nil"
    ELSE "error broadcasting commit transaction with log"

\* case config.BroadcastTxCommit
CommitResult(res) ==
    IF res.failed THEN "error broadcasting commit transaction"
    ELSE IF res.code = 0 /\ res.deliverCode = 0 THEN "nil"
    ELSE "error broadcasting commit transaction with log"

Send_BroadcastTxSync ==
    /\ sendPc = "broadcast"
    /\ txBroadcastType = BroadcastTxSync
    /\ \E res \in BroadcastResponses(FALSE) :
          /\ bres' = res
          /\ SendReturns("BroadcastTxSync", SyncResult(res))
    /\ UNCHANGED <<envVars, runVars, txVars, storeVars, msgs, sendCalls, txBroadcastType, gasNeeded,
                   simRes>>

Send_BroadcastTxAsync ==
    /\ sendPc = "broadcast"
    /\ txBroadcastType = BroadcastTxAsync
    /\ \E res \in BroadcastResponses(FALSE) :
          /\ bres' = res
          /\ SendReturns("BroadcastTxAsync", AsyncResult(res))
    /\ UNCHANGED <<envVars, runVars, txVars, storeVars, msgs, sendCalls, txBroadcastType, gasNeeded,
                   simRes>>

Send_BroadcastTxCommit ==
    /\ sendPc = "broadcast"
    /\ txBroadcastType = BroadcastTxCommit
    /\ \E res \in BroadcastResponses(TRUE) :
          /\ bres' = res
          /\ SendReturns("BroadcastTxCommit", CommitResult(res))
    /\ UNCHANGED <<envVars, runVars, txVars, storeVars, msgs, sendCalls, txBroadcastType, gasNeeded,
                   simRes>>

\* default: no broadcast call, Send reports the unknown type.
Send_default ==
    /\ sendPc = "broadcast"
    /\ txBroadcastType \notin {BroadcastTxSync, BroadcastTxAsync, BroadcastTxCommit}
    /\ sendErr' = "not implemented transaction send type"
    /\ sendPc' = "done"
    /\ UNCHANGED <<envVars, runVars, txVars, storeVars, msgs, sendCalls, txBroadcastType, sendSteps,
                   bres, gasNeeded, simRes>>

Send ==
    \/ Send_queryAccount
    \/ Send_calculateGas
    \/ Send_buildTxBz
    \/ Send_BroadcastTxSync
    \/ Send_BroadcastTxAsync
    \/ Send_BroadcastTxCommit
    \/ Send_default

(***************************************************************************)
(* Specifications                                                          *)
(***************************************************************************)
Relay ==
    \/ Run
    \/ RunRecord
    \/ processMessageKV
    \/ SubmitProof
    \/ processMessageKVReturn
    \/ processMessageTX
    \/ SearchTransactions
    \/ ProcessAndSubmit
    \/ SubmitTxProof
    \/ ProcessAndSubmitReturn
    \/ SetLastQueryHeight
    \/ Send

Next == Enqueue(Tasks) \/ Cancel \/ Relay

Spec == Init /\ [][Next]_vars

\* The relay loop runs in its goroutine and every call it makes returns.
FairNext == Enqueue(LoopTasks) \/ Cancel \/ Relay

FairSpec == Init /\ [][FairNext]_vars /\ WF_vars(Relay)


(***************************************************************************)
(* Properties                                                              *)
(***************************************************************************)
\* A write of the step: SetLastQueryHeight has stored lastWrite'.
Written == lastWrite' # lastWrite /\ lastWrite' # NoWrite

\* C1: a last-processed height other than the lazy 0 is written only by
\* processMessageTX after ProcessAndSubmit of the running task returned no
\* error, and the store changes by such writes only.
C1_HeightWrittenOnlyAfterSubmit ==
    [][ /\ (Written /\ ~lastWrite'.init) =>
              /\ pc = "afterProcessAndSubmit"
              /\ procErr = "nil"
              /\ lastWrite'.id = query.Id
        /\ (storage' # storage) => Written
      ]_vars

C1_Witness ==
    /\ pc = "record"
    /\ lastWrite = [id |-> query.Id, height |-> MaxHeight, init |-> FALSE]
    /\ storage[query.Id] = MaxHeight

\* C2: per query id, no write stores a height below the one stored before,
\* and a task whose search matches nothing leaves the stored height as it is.
C2_HeightMonotonic ==
    [][ /\ \A id \in QueryIds : storage'[id] >= storage[id]
        /\ Written => lastWrite'.height >= storage[lastWrite'.id]
        /\ (pc = "afterProcessAndSubmit" /\ txs = <<>>) => storage' = storage
      ]_vars

C2_Witness ==
    /\ pc = "record"
    /\ heightBefore >= 1
    /\ lastWrite = [id |-> query.Id, height |-> heightBefore + 1, init |-> FALSE]

\* C3: getLastQueryHeight for an absent id writes 0 once and returns 0; for
\* a stored id it returns the stored height and writes nothing, so a second
\* call for the same id returns 0 with no further write.
C3_HeightInitialisedOnce ==
    /\ \A id \in QueryIds : initWrites[id] <= 1
    /\ (lastGet # NoGet /\ ~lastGet.failed) =>
          /\ lastGet.before = Absent => (lastGet.height = 0 /\ lastGet.wrote = 1)
          /\ lastGet.before # Absent =>
                (lastGet.height = lastGet.before /\ lastGet.wrote = 0)
    /\ lastGet.failed => lastGet.wrote = 0

C3_Witness ==
    /\ lastGet.id \in QueryIds
    /\ ~lastGet.failed
    /\ lastGet.before = 0
    /\ lastGet.height = 0
    /\ lastGet.wrote = 0
    /\ initWrites[lastGet.id] = 1

\* The string a JSON token gives a Go string field.
FieldString(token) == IF token.t = "str" THEN token.s ELSE ""

\* C4: the filter handed to the search is the task's triples in their order
\* followed by the one triple {"tx.height", "gt", lastHeight}, lastHeight
\* the stored height of the query, 0 on its first run.
C4_SearchFilter ==
    pc = "SearchTransactions" =>
        LET items == query.TransactionsFilter.items
            n == Len(items)
        IN /\ Len(queryParams) = n + 1
           /\ \A i \in 1..n :
                 /\ queryParams[i].Field = FieldString(items[i].field)
                 /\ queryParams[i].Op = FieldString(items[i].op)
                 /\ queryParams[i].Value =
                       (IF items[i].value.t = "absent" THEN NilValue ELSE items[i].value)
           /\ queryParams[n + 1].Field = "tx.height"
           /\ queryParams[n + 1].Op = "gt"
           /\ queryParams[n + 1].Value = Num(storage[query.Id])
           /\ storage[query.Id] = (IF heightBefore = Absent THEN 0 ELSE heightBefore)

C4_Witness ==
    /\ pc = "SearchTransactions"
    /\ heightBefore = Absent
    /\ queryParams = << [Field |-> "message.action", Op |-> "eq", Value |-> Str("transfer")],
                        [Field |-> "tx.height", Op |-> "gt", Value |-> Num(0)] >>

\* The submission of the batch of the running TX task has failed, and the
\* task is over.
SubmissionFailed ==
    /\ pc = "record"
    /\ query.QueryType = InterchainQueryTypeTX
    /\ procErr \notin {"nil", "failed to fetch tx proofs"}

\* C5 as claimed: after a TX task whose submission failed the store holds
\* for the query what it held before the task.
C5_StoreIdenticalAfterFailedSubmit ==
    SubmissionFailed => storage[query.Id] = heightBefore

\* C5 as amended: after a TX task whose submission failed the store holds
\* for the query the height it held before the task, and 0 if it held none.
C5_HeightNotAdvancedAfterFailedSubmit ==
    SubmissionFailed =>
        storage[query.Id] = (IF heightBefore = Absent THEN 0 ELSE heightBefore)

C5_Witness ==
    /\ SubmissionFailed
    /\ txBroadcastType = BroadcastTxSync
    /\ procErr = "error broadcasting sync transaction with log"
    /\ err = "failed to process txs"
    /\ heightBefore >= 1
    /\ storage[query.Id] = heightBefore

\* C6: the error of a task never ends the loop: after it the loop is back
\* at its select with the queue untouched, Run returns only on the cancelled
\* context, and every queued task is dequeued unless the context is
\* cancelled.
C6_ErrorNeverStopsLoop ==
    /\ [][ /\ (pc = "record" /\ err # "nil" /\ pc' # pc) =>
                 (pc' = "select" /\ tasks' = tasks /\ runErr' = "none")
           /\ (pc' = "returned" /\ pc # "returned") => (ctxCancelled /\ pc = "select")
         ]_vars
    /\ (tasks # <<>>) ~> (ctxCancelled \/ tasks = <<>>)

C6_Witness ==
    /\ ~ctxCancelled
    /\ metrics[LoopQueryType].failed >= 1
    /\ pc \in {"processMessageKV", "processMessageTX"}

\* C7: once the context is cancelled Run returns; it has then closed the
\* storage exactly once, and it returns an error exactly if the close failed.
C7_StopOnCancel ==
    /\ ctxCancelled ~> (pc = "returned")
    /\ [](pc = "returned" =>
             /\ closeCalls = 1
             /\ (runErr # "nil") <=> closeFailed)
    /\ [](pc # "returned" => (closeCalls = 0 /\ runErr = "none"))
    /\ [][pc = "returned" => (pc' = "returned" /\ tasks' = tasks)]_vars

C7_Witness ==
    /\ pc = "returned"
    /\ closeFailed
    /\ runErr = "error occurred while stopping relayer"
    /\ tasks # <<>>

\* The steps of a task that wait for the network.
SendInFlight == sendPc \in {"queryAccount", "calculateGas", "broadcast"}

\* C8 as claimed: a search, proof fetch or submission of a running task that
\* ends after the loop's context was cancelled ends aborted, with an error.
C8_InFlightAbortedOnCancel ==
    [][ ctxCancelled =>
          /\ (pc = "SearchTransactions" /\ pc' # pc) => (searchErr' /\ txs' = <<>>)
          /\ (pc = "ProcessAndSubmit" /\ txs # <<>> /\ pc' # pc) => procErr' # "nil"
          /\ (pc = "processMessageKV" /\ pc' # pc) => err' # "nil"
          /\ (SendInFlight /\ sendPc' # sendPc) => (sendPc' = "done" /\ sendErr' # "nil")
      ]_vars

BroadcastSteps == {"BroadcastTxSync", "BroadcastTxAsync", "BroadcastTxCommit"}
SendOrder == <<"queryAccount", "calculateGas", "buildTxBz">>

\* C9: Send runs account query, gas simulation, build-and-sign, broadcast in
\* this order, a step only after every step before it succeeded; when one of
\* the first three fails Send returns an error and no broadcast is issued.
C9_SendStepsInOrder ==
    /\ Len(sendSteps) <= 4
    /\ \A i \in DOMAIN sendSteps :
          /\ i <= 3 => sendSteps[i].step = SendOrder[i]
          /\ i = 4 => sendSteps[i].step \in BroadcastSteps
          /\ i < Len(sendSteps) => sendSteps[i].ok
    /\ (\E i \in DOMAIN sendSteps : i <= 3 /\ ~sendSteps[i].ok) =>
          /\ sendPc = "done"
          /\ sendErr # "nil"
          /\ \A i \in DOMAIN sendSteps : sendSteps[i].step \notin BroadcastSteps

C9_Witness ==
    /\ sendPc = "done"
    /\ sendSteps = <<Step("queryAccount", TRUE), Step("calculateGas", FALSE)>>
    /\ sendErr # "nil"

\* C10: when the broadcast call returned without error, Send returns success
\* under Sync exactly if the code is 0 and under Commit exactly if the
\* CheckTx and the DeliverTx code are both 0.
C10_SyncCommitSuccess ==
    (sendPc = "done" /\ Len(sendSteps) = 4 /\ ~bres.failed) =>
        /\ txBroadcastType = BroadcastTxSync => (sendErr = "nil" <=> bres.code = 0)
        /\ txBroadcastType = BroadcastTxCommit =>
              (sendErr = "nil" <=> (bres.code = 0 /\ bres.deliverCode = 0))

C10_Witness ==
    /\ sendPc = "done"
    /\ txBroadcastType = BroadcastTxCommit
    /\ ~bres.failed
    /\ bres.code = 0
    /\ bres.deliverCode = 5
    /\ sendErr # "nil"

\* C11 as claimed: under Async, Send returns success exactly if the broadcast
\* call itself returned without error, whatever the code of its response.
C11_AsyncSuccessOnAcceptance ==
    (sendPc = "done" /\ Len(sendSteps) = 4 /\ txBroadcastType = BroadcastTxAsync) =>
        (sendErr = "nil" <=> ~bres.failed)

\* C12 as claimed: when the Simulate call fails, or its response carries a
\* non-zero code or no gas info, calculateGas fails and Send returns an error
\* without signing or broadcasting; gas comes only from a response of a
\* successful call with code 0 and gas info.
C12_SimulationFailsOnBadResponse ==
    simRes.queried =>
        IF simRes.failed \/ simRes.code # 0 \/ ~simRes.hasGasInfo
        THEN /\ sendPc = "done"
             /\ sendErr # "nil"
             /\ sendSteps[Len(sendSteps)] = Step("calculateGas", FALSE)
        ELSE sendPc = "buildTxBz" => sendSteps[Len(sendSteps)] = Step("calculateGas", TRUE)

\* ceil(num / den) for naturals.
CeilDiv(num, den) == (num + den - 1) \div den

\* C13 as claimed: the gas limit Send goes on to sign with is
\* ceil(gasAdjustment * gasUsed) of the simulated gasUsed.
C13_GasRoundedUp ==
    (sendPc = "buildTxBz" /\ simRes.queried) =>
        gasNeeded = CeilDiv(GasAdjustmentNum * simRes.gasUsed, GasAdjustmentDen)

\* C14 as claimed: a sender with a broadcast mode other than Sync, Async and
\* Commit is never constructed, so no Send runs any of its steps with such a
\* mode and the mode is never the error of a call.
C14_UnknownModeRejectedAtStartup ==
    txBroadcastType \notin {BroadcastTxSync, BroadcastTxAsync, BroadcastTxCommit} =>
        /\ sendPc = "idle"
        /\ sendErr # "not implemented transaction send type"

\* C15: SubmitProof and SubmitTxProof build one message; when the build fails
\* they return its error and Send is not called; when it succeeds Send is
\* called once, with that one message, which holds every proof of the query.
C15_OneMessageOrNoSend ==
    /\ [](sendCalls <= 1)
    /\ [](sendPc # "idle" =>
             /\ sendCalls = 1
             /\ Len(msgs) = 1
             /\ msgs[1].QueryId = query.Id
             /\ pc = "kvSend" => Len(msgs[1].Result.KvResults.items) = Len(query.Keys)
             /\ pc = "txSend" => msgs[1].Result.Txs.items = txs)
    /\ []((err = "could not build proof msg" \/ procErr = "could not build tx proof msg") =>
             (sendCalls = 0 /\ msgs = <<>> /\ sendPc = "idle"))
    /\ [][ (pc \in {"SubmitProof", "SubmitTxProof"} /\ pc' # pc) =>
              \/ /\ sendPc' = "idle"
                 /\ sendCalls' = 0
                 /\ msgs' = <<>>
                 /\ \/ pc = "SubmitProof" /\ err' = "could not build proof msg"
                    \/ pc = "SubmitTxProof" /\ procErr' = "could not build tx proof msg"
              \/ /\ sendPc' = "queryAccount"
                 /\ sendCalls' = 1
                 /\ Len(msgs') = 1
                 /\ err' = err /\ procErr' = procErr
          ]_vars

C15_Witness ==
    /\ pc = "kvSend"
    /\ sendPc = "done"
    /\ sendErr = "nil"
    /\ sendCalls = 1
    /\ Len(msgs) = 1
    /\ Len(msgs[1].Result.KvResults.items) = 2

KVShaped(result) == ~result.KvResults.isNil /\ result.Txs.isNil
TXShaped(result) == result.KvResults.isNil /\ ~result.Txs.isNil

\* C16: the result of every message built for the Transaction Sender has
\* one of KvResults and Txs nil: it is KV-shaped for a KV query and TX-shaped
\* for a TX query, never both.
C16_ShapeExclusive ==
    \A i \in DOMAIN msgs :
        LET result == msgs[i].Result
        IN /\ result.KvResults.isNil \/ result.Txs.isNil
           /\ KVShaped(result) \/ TXShaped(result)
           /\ query.QueryType = InterchainQueryTypeKV => KVShaped(result)
           /\ query.QueryType = InterchainQueryTypeTX => TXShaped(result)

C16_Witness ==
    /\ pc = "txSend"
    /\ sendPc = "broadcast"
    /\ Len(msgs) = 1
    /\ TXShaped(msgs[1].Result)
    /\ Len(msgs[1].Result.Txs.items) = 2

\* C17 as claimed: the end of every task records one observation, a success
\* exactly if the task returned no error, under the query type of the task,
\* and the error of a failed task is logged with the query id of the task.
C17_MetricAndLogOfTheTask ==
    [][ (pc = "record" /\ pc' # pc) =>
          /\ metrics' =
                IF err = "nil"
                THEN [metrics EXCEPT ![query.QueryType].success = @ + 1]
                ELSE [metrics EXCEPT ![query.QueryType].failed = @ + 1]
          /\ errorLog' =
                IF err = "nil" THEN errorLog
                ELSE Append(errorLog, [query_id |-> query.Id])
      ]_vars

\* C18: a KV task neither reads nor writes the Height Store: from its
\* dequeue to its end no step changes the stored heights, no call of
\* getLastQueryHeight or SetLastQueryHeight is made, and at its end the store
\* holds for its query what it held at the dequeue.
C18_KVLeavesHeightStore ==
    /\ [][ (query.QueryType = InterchainQueryTypeKV
             \/ query'.QueryType = InterchainQueryTypeKV) =>
              (storage' = storage /\ initWrites' = initWrites) ]_vars
    /\ [](query.QueryType = InterchainQueryTypeKV =>
             /\ lastGet = NoGet
             /\ lastWrite = NoWrite
             /\ storage[query.Id] = heightBefore)

C18_Witness ==
    /\ pc = "record"
    /\ query.QueryType = InterchainQueryTypeKV
    /\ sendCalls = 1
    /\ err = "nil"
    /\ heightBefore >= 1
    /\ storage[query.Id] = heightBefore

\* Observations recorded so far, one per finished task.
Observed ==
    LET Count(l) == metrics[l].success + metrics[l].failed
    IN Count(LoopQueryType) + Count(InterchainQueryTypeKV) + Count(InterchainQueryTypeTX)

\* C19: the loop takes the front task of the queue only when no task is
\* running, so one task and one Send at most are in flight; the Relayer
\* itself only ever removes from the queue, and every delivered task is
\* queued, running or finished, once.
C19_OneTaskAtATimeInOrder ==
    /\ [][ /\ (query = NoQuery /\ query' # NoQuery) =>
                 /\ pc = "select"
                 /\ tasks # <<>>
                 /\ query' = Head(tasks)
                 /\ tasks' = Tail(tasks)
           /\ (query # NoQuery /\ query' # query) => (pc = "record" /\ query' = NoQuery)
           /\ tasks' # tasks =>
                 \/ query = NoQuery /\ query' # NoQuery
                 \/ /\ enqueued' = enqueued + 1
                    /\ query' = query
                    /\ \E q \in Tasks : tasks' = Append(tasks, q)
         ]_vars
    /\ [](query = NoQuery <=> pc \in {"select", "returned"})
    /\ [](sendPc # "idle" => (pc \in {"kvSend", "txSend"} /\ sendCalls = 1))
    /\ [](Observed + (IF query = NoQuery THEN 0 ELSE 1) + Len(tasks) = enqueued)

C19_Witness ==
    /\ enqueued = 2
    /\ metrics[LoopQueryType].failed = 1
    /\ query.QueryType = InterchainQueryTypeTX
    /\ query.Id = 2
    /\ pc = "txSend"
    /\ sendPc = "broadcast"
    /\ tasks = <<>>

\* C20: when the search of a TX task ended with an error the task fails and
\* no height is written, also when ProcessAndSubmit succeeded; the store
\* keeps the height the search started from, so the filter of a later task
\* for the query matches the submitted transactions again.
C20_SearchErrorLeavesHeight ==
    /\ [][ (pc = "afterProcessAndSubmit" /\ searchErr /\ pc' # pc) =>
              /\ pc' = "record"
              /\ err' \in {"failed to process txs", "failed to query txs"}
              /\ procErr = "nil" => err' = "failed to query txs"
              /\ storage' = storage
              /\ lastWrite' = lastWrite
          ]_vars
    /\ []((pc = "record" /\ searchErr) =>
             /\ err # "nil"
             /\ storage[query.Id] = (IF heightBefore = Absent THEN 0 ELSE heightBefore)
             /\ \A i \in DOMAIN txs :
                   txs[i] \in SearchMatches(<<HeightFilterItem(storage[query.Id])>>))

C20_Witness ==
    /\ pc = "record"
    /\ searchErr
    /\ procErr = "nil"
    /\ sendCalls = 1
    /\ txs = <<1, 2>>
    /\ err = "failed to query txs"
    /\ heightBefore = 0
    /\ storage[query.Id] = 0

\* The running task is a query of a type the switch of Run has no case for.
OtherTypeTask ==
    query # NoQuery /\ query.QueryType \notin {InterchainQueryTypeKV, InterchainQueryTypeTX}

\* C21: a dequeued query whose type is neither KV nor TX is taken off the
\* queue and goes straight to the end of the loop body with no error: no
\* processor, search or Send runs for it, the Height Store is not touched,
\* and its end records one success, no failure and no log line.
C21_OtherTypeIsSuccess ==
    /\ [](OtherTypeTask =>
             /\ pc = "record"
             /\ err = "nil"
             /\ sendCalls = 0
             /\ sendPc = "idle"
             /\ msgs = <<>>
             /\ lastGet = NoGet
             /\ lastWrite = NoWrite
             /\ storage[query.Id] = heightBefore)
    /\ [][ /\ (OtherTypeTask' /\ ~OtherTypeTask) =>
                 (tasks # <<>> /\ tasks' = Tail(tasks) /\ storage' = storage)
           /\ (OtherTypeTask /\ pc' # pc) =>
                 /\ pc' = "select"
                 /\ tasks' = tasks
                 /\ storage' = storage
                 /\ errorLog' = errorLog
                 /\ Observed' = Observed + 1
                 /\ \A l \in MetricLabels :
                       /\ metrics'[l].failed = metrics[l].failed
                       /\ metrics'[l].success >= metrics[l].success
         ]_vars

C21_Witness ==
    /\ OtherTypeTask
    /\ pc = "record"
    /\ err = "nil"
    /\ heightBefore >= 1
    /\ storage[query.Id] = heightBefore
    /\ enqueued = 2
    /\ tasks = <<>>

\* C22 as claimed: every Simulate query carries the encoded simulation
\* request: when building, signing or encoding the simulation transaction
\* fails, calculateGas returns an error and sends no query.
C22_NoSimulateWithoutRequest ==
    simRes.queried => simRes.data = "simulate request"

====
